---- MODULE Spec2Model ----
(***************************************************************************)
(* BlogStory backend: the JWT authentication middleware                   *)
(* (middleware/auth.js), the post routes (routes/posts.js) and the two    *)
(* MySQL tables they work on (database/connection.js).                    *)
(*                                                                         *)
(* A request is a sequence of steps: everything a handler does between    *)
(* two awaits is one atomic step, and every awaited store statement is a  *)
(* step of its own, so that requests interleave statement by statement.   *)
(* Strings are sequences of one-character strings.                        *)
(***************************************************************************)
EXTENDS Integers, Sequences, FiniteSets

VARIABLES users, posts, nextId, lastUpd, now, req, started, sumIn, sumOut, sumDone

vars == <<users, posts, nextId, lastUpd, now, req, started, sumIn, sumOut, sumDone>>

storeVars == <<users, posts, nextId>>
sumVars == <<sumIn, sumOut, sumDone>>

(***************************************************************************)
(* Bounds of the model                                                     *)
(***************************************************************************)
\* requests accepted in one behaviour
MaxRequests == 2
\* last second the clock reaches
MaxClock == 1
\* longest hand-written part of a summary input
MaxLen == 3

(***************************************************************************)
(* Program constants                                                       *)
(***************************************************************************)
\* posts.js:27  .substring(0, 200)
SummaryLen == 200
\* posts.js:70  isLength({ min: 1, max: 255 })
TitleMax == 255

Slots == {1, 2}
UserIds == {1, 2}

Min(a, b) == IF a < b THEN a ELSE b

(***************************************************************************)
(* Summary: post.content.replace(/<[^>]*>/g, '').substring(0, 200) + '...' *)
(***************************************************************************)
Ellipsis == <<".", ".", ".">>

\* the least index in set, out when set is empty
Least(set, out) == IF set = {} THEN out ELSE CHOOSE k \in set : \A m \in set : k <= m

\* the greatest index in set, out when set is empty
Greatest(set, out) == IF set = {} THEN out ELSE CHOOSE k \in set : \A m \in set : k >= m

\* the positions of character c in s at or after i
At(s, c, i) == {k \in i..Len(s) : s[k] = c}

\* the greedy pattern /<.*>/ : a match runs from its "<" to the last ">" after it
TagEndGreedy(s, i) == Greatest(At(s, ">", i + 1), 0)

\* where the match of <[^>]*> that starts at the "<" at i ends: the first ">"
\* after it, 0 when there is none and the pattern does not match at i
TagEnd(s, i) == Least(At(s, ">", i + 1), 0)

\* replace(/<[^>]*>/g, '') from position i on: at a "<" that starts a match, drop
\* the match and go on after it; otherwise keep the text up to the next "<"
RECURSIVE StripFrom(_, _)
StripFrom(s, i) ==
  IF i > Len(s) THEN <<>>
  ELSE IF s[i] = "<" /\ TagEnd(s, i) # 0 THEN StripFrom(s, TagEnd(s, i) + 1)
  ELSE LET n == Least(At(s, "<", i + 1), Len(s) + 1) IN
       SubSeq(s, i, n - 1) \o StripFrom(s, n)

StripTags(s) == StripFrom(s, 1)

\* substring(0, n)
Substring0(s, n) == SubSeq(s, 1, Min(Len(s), n))

Summary(content) == Substring0(StripTags(content), SummaryLen) \o Ellipsis

(***************************************************************************)
(* Session tokens: jwt.verify(token, JWT_SECRET) accepts a token that is   *)
(* present, carries a good signature and has not reached its expiry.       *)
(***************************************************************************)
NoToken == [present |-> FALSE, sig |-> FALSE, userId |-> 0, exp |-> 0]

Token(u, e) == [present |-> TRUE, sig |-> TRUE, userId |-> u, exp |-> e]

Forged == [present |-> TRUE, sig |-> FALSE, userId |-> 1, exp |-> MaxClock + 1]


\* a verification that forgets the expiry
VerifyTokenNoExpiry(token, t) == token.present /\ token.sig

VerifyToken(token, t) == token.present /\ token.sig /\ t < token.exp

(***************************************************************************)
(* The store: tables users and posts                                       *)
(***************************************************************************)
UserName(u) == IF u = 1 THEN "alice" ELSE "bob"

UserRow(u) == [id |-> u, username |-> UserName(u)]

NoUser == [id |-> 0, username |-> ""]

\* SELECT id, username, email FROM users WHERE id = ?
SelectUser(us, uid) == IF uid \in us THEN <<UserRow(uid)>> ELSE <<>>

PostRow(id, title, content, author, t) ==
  [id |-> id, title |-> title, content |-> content, author_id |-> author,
   created_at |-> t, updated_at |-> t]

\* INSERT INTO posts (title, content, author_id) VALUES (?, ?, ?)
InsertPost(ps, id, title, content, author, t) ==
  [p \in DOMAIN ps \cup {id} |->
     IF p = id THEN PostRow(id, title, content, author, t) ELSE ps[p]]

\* a column that is stamped by every UPDATE, changed row or not
UpdatedAtAlways(row, title, content, t) == t

\* updated_at ... ON UPDATE CURRENT_TIMESTAMP: stamped when the UPDATE changes
\* a column of the row, left alone when it sets the values the row already has
UpdatedAt(row, title, content, t) ==
  IF row.title = title /\ row.content = content THEN row.updated_at ELSE t

\* UPDATE posts SET title = ?, content = ? WHERE id = ?
UpdatePost(ps, id, title, content, t) ==
  IF id \notin DOMAIN ps THEN ps
  ELSE [ps EXCEPT ![id] =
          [@ EXCEPT !.title = title, !.content = content,
                    !.updated_at = UpdatedAt(ps[id], title, content, t)]]

\* DELETE FROM posts WHERE id = ?
DeletePost(ps, id) == [p \in DOMAIN ps \ {id} |-> ps[p]]

\* FOREIGN KEY (author_id) REFERENCES users(id) ON DELETE CASCADE
CascadeDelete(ps, u) == [p \in {q \in DOMAIN ps : ps[q].author_id # u} |-> ps[p]]

\* SELECT author_id FROM posts WHERE id = ?
SelectAuthor(ps, id) ==
  IF id \in DOMAIN ps THEN <<[author_id |-> ps[id].author_id]>> ELSE <<>>

JoinedRow(row) ==
  [id |-> row.id, title |-> row.title, content |-> row.content,
   created_at |-> row.created_at, updated_at |-> row.updated_at,
   author_id |-> row.author_id, author |-> UserName(row.author_id)]

\* SELECT p.*, u.username FROM posts p JOIN users u ON p.author_id = u.id WHERE p.id = ?
SelectPostJoined(ps, us, id) ==
  IF id \in DOMAIN ps /\ ps[id].author_id \in us THEN <<JoinedRow(ps[id])>> ELSE <<>>

\* the rows of posts JOIN users, all of them
AllRows(ps, us) == {ps[p] : p \in {q \in DOMAIN ps : ps[q].author_id \in us}}

\* ... WHERE p.author_id = ?
RowsOfAuthor(ps, us, uid) == {row \in AllRows(ps, us) : row.author_id = uid}

\* ORDER BY p.created_at DESC: every sequence of the rows in which created_at
\* never increases; the order among rows of equal created_at is the server's
OrderedByCreatedDesc(rows) ==
  {s \in [1..Cardinality(rows) -> rows] :
     /\ \A i, j \in 1..Cardinality(rows) : i # j => s[i] # s[j]
     /\ \A i, j \in 1..Cardinality(rows) : i < j => s[i].created_at >= s[j].created_at}

\* posts.map(post => ({ ...post, summary: ... }))
WithSummary(row) ==
  [id |-> row.id, title |-> row.title, content |-> row.content,
   created_at |-> row.created_at, updated_at |-> row.updated_at,
   author |-> UserName(row.author_id), summary |-> Summary(row.content)]

MapSummary(s) == [i \in 1..Len(s) |-> WithSummary(s[i])]

(***************************************************************************)
(* Requests.  req[r] is the request served in slot r: its inputs, the      *)
(* place it has reached (pc), req.user as the middleware set it, and the   *)
(* response (status, out: the rows of the body).  The other fields record  *)
(* what happened to it: why authentication rejected it (authFail), when    *)
(* the token was verified (authAt), whether a store statement threw        *)
(* (storeErr), whether the route handler ran (ran), the ownership SELECT's *)
(* result (looked, seen), whether its UPDATE or DELETE was issued          *)
(* (issued), the tables a listing read (snapPosts, snapUsers) and, for     *)
(* GET /:id, the last UPDATE applied to the row it read (after).  lastUpd  *)
(* keeps that last UPDATE for every post, and whether the request that     *)
(* made it has answered 200 since.                                         *)
(***************************************************************************)
TitleA == <<"A">>
TitleB == <<"B">>
ContentA == <<"h", "i">>
ContentB == <<"<", "p", ">", "W", "<", "/", "p", ">">>

NoBody == [title |-> <<>>, content |-> <<>>]

\* two bodies that pass validation
BodyA == [title |-> TitleA, content |-> ContentA]
BodyB == [title |-> TitleB, content |-> ContentB]

\* a body without a title, a body without content
NoTitle == [title |-> <<>>, content |-> ContentA]
NoContent == [title |-> TitleA, content |-> <<>>]

\* body('title').isLength({ min: 1, max: 255 }), body('content').isLength({ min: 1 })
ValidBody(b) == Len(b.title) >= 1 /\ Len(b.title) <= TitleMax /\ Len(b.content) >= 1

NoWrite == [set |-> FALSE, title |-> <<>>, content |-> <<>>, at |-> 0,
            changed |-> FALSE, prev |-> 0, by |-> 0, acked |-> FALSE]

Idle ==
  [pc |-> "idle", kind |-> "none", token |-> NoToken, id |-> 0, body |-> NoBody,
   user |-> NoUser, status |-> 0, out |-> <<>>,
   authFail |-> "none", authAt |-> 0, storeErr |-> FALSE, ran |-> FALSE,
   looked |-> FALSE, seen |-> <<>>, issued |-> FALSE,
   snapPosts |-> <<>>, snapUsers |-> {}, after |-> NoWrite]

Protected(kind) == kind \in {"create", "update", "delete", "myposts"}

\* the post ids a request can name
IdInputs == {1, 2}

Alice == Token(1, MaxClock + 1)
Bob == Token(2, MaxClock)

\* The requests tried, the parts a route does not read left at their defaults.
\* Alice (user 1) creates, updates and deletes, her own post 1 and Bob's post 2;
\* Bob (user 2), whose token runs out, creates and lists his posts; a body
\* without a title and one without content are tried once each; every protected
\* route is tried without a token and with a forged one.
Inputs ==
  [kind : {"create"}, token : {Alice}, id : {0}, body : {BodyA, NoContent}]
  \cup [kind : {"create"}, token : {Bob}, id : {0}, body : {BodyA}]
  \cup [kind : {"update"}, token : {Alice}, id : IdInputs, body : {BodyA, BodyB}]
  \cup [kind : {"update"}, token : {Alice}, id : {1}, body : {NoTitle}]
  \cup [kind : {"delete"}, token : {Alice}, id : IdInputs, body : {NoBody}]
  \cup [kind : {"create", "update", "delete", "myposts"}, token : {NoToken, Forged},
         id : {0}, body : {NoBody}]
  \cup [kind : {"myposts"}, token : {Alice, Bob}, id : {0}, body : {NoBody}]
  \cup [kind : {"list"}, token : {NoToken}, id : {0}, body : {NoBody}]
  \cup [kind : {"get"}, token : {NoToken}, id : IdInputs, body : {NoBody}]

\* res.status(status).json(...)
Respond(q, status, rows) == [q EXCEPT !.pc = "done", !.status = status, !.out = rows]

\* a handler's catch block: res.status(500).json({ error: 'Internal server error' })
Fail500(q) == Respond([q EXCEPT !.storeErr = TRUE], 500, <<>>)

\* the route handler, up to its first store statement
HandlerEntry(q) ==
  LET h == [q EXCEPT !.ran = TRUE] IN
  CASE q.kind = "create" ->
         IF ~ValidBody(q.body) THEN Respond(h, 400, <<>>) ELSE [h EXCEPT !.pc = "insert"]
    [] q.kind = "update" ->
         IF ~ValidBody(q.body) THEN Respond(h, 400, <<>>) ELSE [h EXCEPT !.pc = "ownSelect"]
    [] q.kind = "delete" -> [h EXCEPT !.pc = "ownSelect"]
    [] q.kind = "myposts" -> [h EXCEPT !.pc = "mySelect"]
    [] q.kind = "list" -> [h EXCEPT !.pc = "listSelect"]
    [] OTHER -> [h EXCEPT !.pc = "getSelect"]

\* if (!token) return res.status(401).json({ error: 'Access token required' })
RejectMissing(q) == Respond([q EXCEPT !.authFail = "missing"], 401, <<>>)

\* jwt.verify threw: the catch block, 403 'Invalid or expired token'
RejectInvalid(q) ==
  Respond([q EXCEPT !.authFail = IF q.token.sig THEN "expired" ELSE "invalid"], 403, <<>>)

\* if (users.length === 0) return res.status(401).json({ error: 'User not found' })
RejectNoUser(q) == Respond([q EXCEPT !.authFail = "nouser"], 401, <<>>)

\* pool.execute threw inside the middleware's try: the same catch block, 403
RejectStoreError(q) == Respond([q EXCEPT !.storeErr = TRUE], 403, <<>>)

\* authenticateToken up to its await; a public route goes straight to its handler
Arrive(in, t) ==
  LET q == [Idle EXCEPT !.kind = in.kind, !.token = in.token, !.id = in.id,
                        !.body = in.body] IN
  IF ~Protected(in.kind) THEN HandlerEntry(q)
  ELSE IF ~in.token.present THEN RejectMissing([q EXCEPT !.authAt = t])
  ELSE IF ~VerifyToken(in.token, t) THEN RejectInvalid([q EXCEPT !.authAt = t])
  ELSE [q EXCEPT !.pc = "authLookup", !.authAt = t]

\* req.user = users[0]; next()
Admit(q, rows) == HandlerEntry([q EXCEPT !.user = rows[1]])

Free(r) == req[r].pc \in {"idle", "done"}

\* a request arrives and is served in the lowest free slot; the responses of
\* the requests that have finished are kept until then
Start(r, in) ==
  /\ started < MaxRequests
  /\ Free(r)
  /\ \A r2 \in Slots : r2 < r => ~Free(r2)
  /\ req' = [r2 \in Slots |->
               IF r2 = r THEN Arrive(in, now)
               ELSE IF Free(r2) THEN Idle ELSE req[r2]]
  /\ started' = started + 1
  /\ UNCHANGED <<storeVars, lastUpd, now, sumVars>>

\* const [users] = await pool.execute('SELECT ... FROM users WHERE id = ?') and on
AuthLookup(r) ==
  /\ req[r].pc = "authLookup"
  /\ \E ok \in BOOLEAN :
       LET rows == SelectUser(users, req[r].token.userId) IN
       req' = [req EXCEPT ![r] =
                 IF ~ok THEN RejectStoreError(req[r])
                 ELSE IF Len(rows) = 0 THEN RejectNoUser(req[r])
                 ELSE Admit(req[r], rows)]
  /\ UNCHANGED <<storeVars, lastUpd, now, started, sumVars>>

\* the post exists but any caller passes for its author
IsAuthorAnyone(row, uid) == TRUE

\* posts[0].author_id !== userId, negated
IsAuthor(row, uid) == row.author_id = uid

\* a lookup that answers 403 for a missing post as for someone else's
DecideMissingAsForbidden(rows, uid) ==
  IF Len(rows) = 0 \/ ~IsAuthor(rows[1], uid) THEN "forbidden" ELSE "ok"

\* a lookup that only checks that the post exists
DecideExistenceOnly(rows, uid) == IF Len(rows) = 0 THEN "missing" ELSE "ok"

\* if (posts.length === 0) 404; if (posts[0].author_id !== userId) 403
Decide(rows, uid) ==
  IF Len(rows) = 0 THEN "missing"
  ELSE IF ~IsAuthor(rows[1], uid) THEN "forbidden"
  ELSE "ok"

\* PUT and DELETE /:id: SELECT author_id FROM posts WHERE id = ?, then the two checks
OwnSelect(r) ==
  /\ req[r].pc = "ownSelect"
  /\ \E ok \in BOOLEAN :
       LET rows == SelectAuthor(posts, req[r].id)
           q == [req[r] EXCEPT !.looked = TRUE, !.seen = rows]
           verdict == Decide(rows, req[r].user.id) IN
       req' = [req EXCEPT ![r] =
                 IF ~ok THEN Fail500(req[r])
                 ELSE IF verdict = "missing" THEN Respond(q, 404, <<>>)
                 ELSE IF verdict = "forbidden" THEN Respond(q, 403, <<>>)
                 ELSE [q EXCEPT !.pc = IF q.kind = "update" THEN "update" ELSE "delete"]]
  /\ UNCHANGED <<storeVars, lastUpd, now, started, sumVars>>

\* what the UPDATE of the request in slot r did to the row it found
WriteOf(row, title, content, t, r) ==
  [set |-> TRUE, title |-> title, content |-> content, at |-> t,
   changed |-> (row.title # title \/ row.content # content), prev |-> row.updated_at,
   by |-> r, acked |-> FALSE]

\* the request in slot r answers 200: its UPDATE, if it is still the last one
\* applied to the post, has been acknowledged
Acked(lu, id, r) ==
  IF id \in DOMAIN lu /\ lu[id].set /\ lu[id].by = r
  THEN [lu EXCEPT ![id] = [@ EXCEPT !.by = 0, !.acked = TRUE]]
  ELSE lu

\* PUT /:id: await pool.execute('UPDATE posts SET title = ?, content = ? WHERE id = ?')
UpdateStmt(r) ==
  /\ req[r].pc = "update"
  /\ \E ok \in BOOLEAN :
       IF ~ok
       THEN /\ req' = [req EXCEPT ![r] = Fail500([req[r] EXCEPT !.issued = TRUE])]
            /\ UNCHANGED <<posts, lastUpd>>
       ELSE /\ posts' = UpdatePost(posts, req[r].id, req[r].body.title,
                                   req[r].body.content, now)
            /\ lastUpd' = IF req[r].id \in DOMAIN posts
                          THEN [lastUpd EXCEPT ![req[r].id] =
                                  WriteOf(posts[req[r].id], req[r].body.title,
                                          req[r].body.content, now, r)]
                          ELSE lastUpd
            /\ req' = [req EXCEPT ![r] = [@ EXCEPT !.pc = "updateRead", !.issued = TRUE]]
  /\ UNCHANGED <<users, nextId, now, started, sumVars>>

\* PUT /:id: the re-read, then res.json({ message, post: updatedPost[0] })
UpdateRead(r) ==
  /\ req[r].pc = "updateRead"
  /\ \E ok \in BOOLEAN :
       IF ~ok
       THEN /\ req' = [req EXCEPT ![r] = Fail500(req[r])]
            /\ UNCHANGED lastUpd
       ELSE /\ req' = [req EXCEPT ![r] =
                        Respond(req[r], 200, SelectPostJoined(posts, users, req[r].id))]
            /\ lastUpd' = Acked(lastUpd, req[r].id, r)
  /\ UNCHANGED <<storeVars, now, started, sumVars>>

\* DELETE /:id: await pool.execute('DELETE FROM posts WHERE id = ?'), then the response
DeleteStmt(r) ==
  /\ req[r].pc = "delete"
  /\ \E ok \in BOOLEAN :
       IF ~ok
       THEN /\ req' = [req EXCEPT ![r] = Fail500([req[r] EXCEPT !.issued = TRUE])]
            /\ UNCHANGED <<posts, lastUpd>>
       ELSE /\ posts' = DeletePost(posts, req[r].id)
            /\ lastUpd' = [p \in DOMAIN lastUpd \ {req[r].id} |-> lastUpd[p]]
            /\ req' = [req EXCEPT ![r] = Respond([@ EXCEPT !.issued = TRUE], 200, <<>>)]
  /\ UNCHANGED <<users, nextId, now, started, sumVars>>

\* POST /: the INSERT; id takes the AUTO_INCREMENT value, both timestamps default
\* to CURRENT_TIMESTAMP.  The author is req.user, a row of users, so the foreign
\* key holds.
Insert(r) ==
  /\ req[r].pc = "insert"
  /\ \E ok \in BOOLEAN :
       IF ~ok
       THEN /\ req' = [req EXCEPT ![r] = Fail500(req[r])]
            /\ UNCHANGED <<posts, lastUpd, nextId>>
       ELSE /\ posts' = InsertPost(posts, nextId, req[r].body.title,
                                   req[r].body.content, req[r].user.id, now)
            /\ lastUpd' = [p \in DOMAIN lastUpd \cup {nextId} |->
                             IF p = nextId THEN NoWrite ELSE lastUpd[p]]
            /\ nextId' = nextId + 1
            /\ req' = [req EXCEPT ![r] = [@ EXCEPT !.pc = "createRead", !.id = nextId]]
  /\ UNCHANGED <<users, now, started, sumVars>>

\* POST /: the read of result.insertId, then res.status(201).json({ message, post })
CreateRead(r) ==
  /\ req[r].pc = "createRead"
  /\ \E ok \in BOOLEAN :
       req' = [req EXCEPT ![r] =
                 IF ~ok THEN Fail500(req[r])
                 ELSE Respond(req[r], 201, SelectPostJoined(posts, users, req[r].id))]
  /\ UNCHANGED <<storeVars, lastUpd, now, started, sumVars>>

\* a listing's response, with the tables it read
Listing(q, rows) ==
  Respond([q EXCEPT !.snapPosts = posts, !.snapUsers = users], 200, MapSummary(rows))

\* GET /: the SELECT ... ORDER BY p.created_at DESC, the summaries, res.json
ListSelect(r) ==
  /\ req[r].pc = "listSelect"
  /\ \E ok \in BOOLEAN :
       IF ~ok THEN req' = [req EXCEPT ![r] = Fail500(req[r])]
       ELSE \E rows \in OrderedByCreatedDesc(AllRows(posts, users)) :
              req' = [req EXCEPT ![r] = Listing(req[r], rows)]
  /\ UNCHANGED <<storeVars, lastUpd, now, started, sumVars>>

\* GET /user/my-posts: the same with WHERE p.author_id = ?
MySelect(r) ==
  /\ req[r].pc = "mySelect"
  /\ \E ok \in BOOLEAN :
       IF ~ok THEN req' = [req EXCEPT ![r] = Fail500(req[r])]
       ELSE \E rows \in OrderedByCreatedDesc(RowsOfAuthor(posts, users, req[r].user.id)) :
              req' = [req EXCEPT ![r] = Listing(req[r], rows)]
  /\ UNCHANGED <<storeVars, lastUpd, now, started, sumVars>>

\* GET /:id
GetSelect(r) ==
  /\ req[r].pc = "getSelect"
  /\ \E ok \in BOOLEAN :
       LET rows == SelectPostJoined(posts, users, req[r].id) IN
       req' = [req EXCEPT ![r] =
                 IF ~ok THEN Fail500(req[r])
                 ELSE IF Len(rows) = 0 THEN Respond(req[r], 404, <<>>)
                 ELSE Respond([req[r] EXCEPT !.after = lastUpd[req[r].id]], 200, rows)]
  /\ UNCHANGED <<storeVars, lastUpd, now, started, sumVars>>

\* a second passes: CURRENT_TIMESTAMP and the clock jwt.verify reads move on
Tick ==
  /\ now < MaxClock
  /\ now' = now + 1
  /\ UNCHANGED <<storeVars, lastUpd, req, started, sumVars>>

(***************************************************************************)
(* The tables as the process finds them (CREATE TABLE IF NOT EXISTS keeps  *)
(* what an earlier run left): posts empty, or holding two posts of the     *)
(* same second, one of each user; and user 2, whose token is still in      *)
(* use, either present or deleted from users, its posts gone with it.      *)
(* No route deletes or changes a user, so users stays as it starts.        *)
(***************************************************************************)
EmptyPosts == [p \in {} |-> NoWrite]

SeededPosts ==
  [p \in {1, 2} |->
     IF p = 1 THEN PostRow(1, TitleA, ContentA, 1, 0)
     ELSE PostRow(2, TitleB, ContentB, 2, 0)]

Init ==
  /\ \E base \in {EmptyPosts, SeededPosts}, gone \in {{}, {2}} :
       /\ gone # {} => base = SeededPosts
       /\ users = UserIds \ gone
       /\ posts = IF gone = {} THEN base ELSE CascadeDelete(base, 2)
       /\ nextId = Cardinality(DOMAIN base) + 1
  /\ lastUpd = [p \in DOMAIN posts |-> NoWrite]
  /\ now = 0
  /\ req = [r \in Slots |-> Idle]
  /\ started = 0
  /\ sumIn = <<>>
  /\ sumOut = <<>>
  /\ sumDone = TRUE

Next ==
  \/ \E r \in Slots, in \in Inputs : Start(r, in)
  \/ \E r \in Slots : AuthLookup(r)
  \/ \E r \in Slots : OwnSelect(r)
  \/ \E r \in Slots : UpdateStmt(r)
  \/ \E r \in Slots : UpdateRead(r)
  \/ \E r \in Slots : DeleteStmt(r)
  \/ \E r \in Slots : Insert(r)
  \/ \E r \in Slots : CreateRead(r)
  \/ \E r \in Slots : ListSelect(r)
  \/ \E r \in Slots : MySelect(r)
  \/ \E r \in Slots : GetSelect(r)
  \/ Tick

Spec == Init /\ [][Next]_vars

(***************************************************************************)
(* The summary on its own: an input is drawn, the expression is applied.   *)
(* Inputs are two short strings over < > h i around a run of n letters x,  *)
(* n at or just under the 200-character cut.                               *)
(***************************************************************************)
Alphabet == {"<", ">", "h", "i"}

Strings(n) == UNION {[1..k -> Alphabet] : k \in 0..n}

Pad(n) == [i \in 1..n |-> "x"]

PadLens == {0, SummaryLen - 2, SummaryLen - 1, SummaryLen}

\* MaxLen hand-written characters in all
SummaryInputs ==
  UNION {{a \o Pad(n) \o b : b \in Strings(MaxLen - Len(a)), n \in PadLens} :
           a \in Strings(MaxLen)}

InitSummary ==
  /\ users = UserIds
  /\ posts = EmptyPosts
  /\ nextId = 1
  /\ lastUpd = EmptyPosts
  /\ now = 0
  /\ req = [r \in Slots |-> Idle]
  /\ started = 0
  /\ sumIn \in SummaryInputs
  /\ sumOut = <<>>
  /\ sumDone = FALSE

\* summary: post.content.replace(/<[^>]*>/g, '').substring(0, 200) + '...'
Summarize ==
  /\ ~sumDone
  /\ sumOut' = Summary(sumIn)
  /\ sumDone' = TRUE
  /\ UNCHANGED <<storeVars, lastUpd, now, req, started, sumIn>>

NextSummary == Summarize

SpecSummary == InitSummary /\ [][NextSummary]_vars

(***************************************************************************)
(* Claims                                                                  *)
(***************************************************************************)
Done(q) == q.pc = "done"

\* the ownership SELECT of an update or delete found the post, of another author
FoundOthers(q) ==
  /\ q.kind \in {"update", "delete"}
  /\ q.looked
  /\ Len(q.seen) = 1
  /\ q.seen[1].author_id # q.user.id

\* C1: an authenticated PUT or DELETE /:id (valid body) whose ownership lookup
\* finds the post with an author_id other than the caller's id is answered 403,
\* and the request issues no UPDATE or DELETE statement.
C1_NonAuthorForbidden ==
  \A r \in Slots :
    FoundOthers(req[r]) => Done(req[r]) /\ req[r].status = 403 /\ ~req[r].issued

\* C1's case: Alice's delete of Bob's post 2 has been answered
C1_Witness ==
  \E r \in Slots :
    /\ FoundOthers(req[r])
    /\ req[r].kind = "delete"
    /\ req[r].id = 2
    /\ req[r].status = 403

\* post p loses its row, or its title or content changes, in this step
Mutated(p) ==
  \/ p \notin DOMAIN posts'
  \/ posts'[p].title # posts[p].title
  \/ posts'[p].content # posts[p].content

\* request r executes its UPDATE or DELETE statement in this step
Executes(r) == req[r].pc \in {"update", "delete"} /\ req'[r].pc # req[r].pc

\* C2: in every interleaving of requests, a post's title or content changes, or
\* the post is removed, only in a step in which a request executes its UPDATE or
\* DELETE on that post and the request's authenticated user id is the post's
\* author_id at that moment.
C2_OnlyAuthorMutates ==
  [][\A p \in DOMAIN posts :
       Mutated(p) =>
         \E r \in Slots :
           /\ Executes(r)
           /\ req[r].id = p
           /\ req[r].user.id = posts[p].author_id]_vars

\* C2's case: an UPDATE that passed its ownership check ran after the post had
\* been deleted in the window between the two statements
C2_Witness ==
  \E r \in Slots :
    /\ req[r].kind = "update"
    /\ req[r].pc = "updateRead"
    /\ req[r].id \notin DOMAIN posts

\* C3: an authenticated update (valid body) or delete whose lookup finds no post
\* with the id is answered 404, whoever asks; so never 403.
C3_MissingIs404 ==
  \A r \in Slots :
    (req[r].looked /\ Len(req[r].seen) = 0) => Done(req[r]) /\ req[r].status = 404

\* C3's case: an update of post 2, which went with its author Bob, has been
\* answered
C3_Witness ==
  \E r \in Slots :
    /\ req[r].looked
    /\ Len(req[r].seen) = 0
    /\ req[r].kind = "update"
    /\ req[r].id = 2
    /\ 2 \notin users
    /\ Done(req[r])

\* C4: the handler of a protected route runs only for a request whose token
\* verified when the middleware ran (present, good signature, not expired) and
\* whose user id is a row of users; req.user is then that row.
C4_GateAdmitsOnlyVerified ==
  \A r \in Slots :
    (Protected(req[r].kind) /\ req[r].ran) =>
      /\ req[r].token.present
      /\ req[r].token.sig
      /\ req[r].authAt < req[r].token.exp
      /\ req[r].token.userId \in users
      /\ req[r].user = UserRow(req[r].token.userId)
      /\ req[r].authFail = "none"

\* C4's case: Bob's handler ran, and his token has expired since
C4_Witness ==
  \E r \in Slots :
    /\ Protected(req[r].kind)
    /\ req[r].ran
    /\ req[r].user = UserRow(2)
    /\ now >= req[r].token.exp

\* C5 as stated: every authentication failure (no token, bad signature, expired
\* token, user gone) is answered 401.
C5_Original ==
  \A r \in Slots :
    (Done(req[r]) /\ req[r].authFail # "none") => req[r].status = 401

\* C6 as stated: a request during which a store statement threw is answered 500.
C6_Original ==
  \A r \in Slots : req[r].storeErr => Done(req[r]) /\ req[r].status = 500

\* C7 as stated: a 200 of PUT /:id carries the post row, with the title and
\* content the request sent, in every interleaving.
C7_Original ==
  \A r \in Slots :
    (req[r].kind = "update" /\ Done(req[r]) /\ req[r].status = 200) =>
      /\ Len(req[r].out) = 1
      /\ req[r].out[1].title = req[r].body.title
      /\ req[r].out[1].content = req[r].body.content

\* GET /:id answered 200 with a row whose last mutation was the UPDATE of a
\* request that had answered 200 before the row was read
ReadAfterUpdate(q) ==
  q.kind = "get" /\ Done(q) /\ q.status = 200 /\ q.after.set /\ q.after.acked

\* C8 as stated: after an update with no mutation since, getPost returns the new
\* title and content and an updatedAt strictly greater than createdAt.
C8_Original ==
  \A r \in Slots :
    ReadAfterUpdate(req[r]) =>
      /\ req[r].out[1].title = req[r].after.title
      /\ req[r].out[1].content = req[r].after.content
      /\ req[r].out[1].updated_at > req[r].out[1].created_at

\* C8 amended: after an update with no mutation since, getPost returns the new
\* title and content; updatedAt is the second of the UPDATE when it changed the
\* title or the content, is what it was before when it resent the current
\* values, and is never before createdAt.
C8_RoundTrip ==
  \A r \in Slots :
    ReadAfterUpdate(req[r]) =>
      /\ req[r].out[1].title = req[r].after.title
      /\ req[r].out[1].content = req[r].after.content
      /\ req[r].out[1].updated_at >= req[r].out[1].created_at
      /\ req[r].out[1].updated_at =
           IF req[r].after.changed THEN req[r].after.at ELSE req[r].after.prev

\* C8's case: the post read was changed by an update in the second it was created
C8_Witness ==
  \E r \in Slots :
    /\ ReadAfterUpdate(req[r])
    /\ req[r].after.changed
    /\ req[r].out[1].updated_at = req[r].out[1].created_at

Listed(q) == q.kind \in {"list", "myposts"} /\ Done(q) /\ q.status = 200

\* the rows a listing had to return, from the tables it read
Expected(q) ==
  IF q.kind = "list" THEN AllRows(q.snapPosts, q.snapUsers)
  ELSE RowsOfAuthor(q.snapPosts, q.snapUsers, q.user.id)

\* C9 as stated: a listing returns every stored post (my-posts: the caller's),
\* createdAt descending, and two listings of the same store state return the
\* same sequence.
C9_Original ==
  \A r \in Slots :
    Listed(req[r]) =>
      /\ Len(req[r].out) = Cardinality(Expected(req[r]))
      /\ {req[r].out[i].id : i \in 1..Len(req[r].out)} = {row.id : row \in Expected(req[r])}
      /\ \A i, j \in 1..Len(req[r].out) :
           i < j => req[r].out[i].created_at >= req[r].out[j].created_at
      /\ \A r2 \in Slots :
           (/\ Listed(req[r2])
            /\ req[r2].kind = req[r].kind
            /\ req[r2].user = req[r].user
            /\ req[r2].snapPosts = req[r].snapPosts
            /\ req[r2].snapUsers = req[r].snapUsers) => req[r2].out = req[r].out

\* position i of s lies in a tag: some "<" at or before i with no ">" between it
\* and i, and some ">" at or after i
InTag(s, i) ==
  /\ \E k \in i..Len(s) : s[k] = ">"
  /\ \E j \in 1..i : s[j] = "<" /\ \A m \in j..(i - 1) : s[m] # ">"

\* the characters of s at positions lo..hi that lie outside every tag, in order
RECURSIVE Outside(_, _, _)
Outside(s, lo, hi) ==
  IF lo > hi THEN <<>>
  ELSE IF lo = hi THEN (IF InTag(s, lo) THEN <<>> ELSE <<s[lo]>>)
  ELSE Outside(s, lo, (lo + hi) \div 2) \o Outside(s, (lo + hi) \div 2 + 1, hi)

\* C10: the summary is the content without its tags ('<' up to the next '>'),
\* cut to the first 200 characters of what is left, followed by "..." whether
\* or not anything was cut; it ends in "...", has at most 203 characters, and
\* "hi" gives "hi...".
C10_Summary ==
  sumDone =>
    LET rest == Outside(sumIn, 1, Len(sumIn)) IN
    /\ sumOut = SubSeq(rest, 1, Min(Len(rest), 200)) \o <<".", ".", ".">>
    /\ Len(sumOut) <= 203
    /\ SubSeq(sumOut, Len(sumOut) - 2, Len(sumOut)) = <<".", ".", ".">>
    /\ sumIn = <<"h", "i">> => sumOut = <<"h", "i", ".", ".", ".">>

\* C10's case: a content with a tag, whose text is cut at 200 characters
C10_Witness ==
  /\ sumDone
  /\ \E i \in 1..Len(sumIn) : sumIn[i] = "<" /\ InTag(sumIn, i)
  /\ Len(Outside(sumIn, 1, Len(sumIn))) > 200
  /\ Len(sumOut) = 203

====
